---- MODULE Spec2Model ----
(***************************************************************************)
(* Capture-worker supervision and frame transport of hermes-pupillabs.    *)
(*                                                                         *)
(* The coordinator is PupilUvcProducer (producer.py).  A capture worker is *)
(* one process per camera running one of the two worker bodies of the      *)
(* repository: the function _run_capture (producer.py) or the callable     *)
(* PupilUvcHandler (handler.py).  Workers and coordinator share the        *)
(* transport queue (_cap_queue) and the events _stop_event / _keep_event;  *)
(* the handler body also raises a per-worker ready_event.                  *)
(*                                                                         *)
(* The UVC driver is the environment: which frame indices a device stream  *)
(* delivers, whether a read times out or faults, and whether an open       *)
(* succeeds are chosen nondeterministically.                               *)
(***************************************************************************)
EXTENDS Integers, Sequences, FiniteSets, TLC

\* ------------------------------------------------------------------ bounds
MaxFrames == 2      \* frames a device stream delivers in one run
MaxGap == 2         \* largest step between two delivered device sequences
MaxFaults == 1      \* read faults / failed opens the environment injects in a run
MaxModes == 2       \* most capture modes a device lists
MaxControls == 3    \* most control overrides a camera specification carries

\* --------------------------------------------------------------- constants
Cams == {"A", "B"}                          \* keys of camera_mapping
Targets == {"run_capture", "handler"}       \* the two worker bodies
None == -1                                  \* Python None in _start_index

VARIABLES
    target,           \* worker body the processes run
    broken,           \* broken[c]: the device of c fails every open
    devScript,        \* devScript[c]: frame.index values the stream of c still delivers
    faultsLeft,       \* faults the environment may still inject
    pc,               \* pc[c]: position of worker c
    cap,              \* cap[c]: "unset" | "open" | "closed"  (the worker's capture handle)
    ready,            \* ready[c]: ready_event of worker c
    delivered,        \* delivered[c]: frame.index values worker c read, in order (history)
    cap_queue,        \* _cap_queue: <<camera_name, index>> records
    stop_event,       \* _stop_event
    keep_event,       \* _keep_event
    connected,        \* _connect has returned True
    is_continue_capture, \* base-class flag read by _process_data
    start_index,      \* _start_index
    parse_frame_fn,   \* _parse_frame_fn: "first" | "frame"
    out,              \* out[c]: records published for c, in order (history)
    last_poll,        \* result of the last _process_data: "none" | "no_data" | "frame"
    end_sent,         \* _send_end_packet was called
    cleaned,          \* _cleanup has returned
    audit,            \* whether the run keeps the two history variables below
    peak_handles,     \* peak_handles[c]: most device handles worker c held open at once (history)
    late_frames,      \* late_frames[c]: records worker c enqueued with stop_event set (history)
    camera_setup,     \* device setup under study: modes the device lists, configured overrides
    setup_result      \* what that device setup did

vars == <<target, broken, devScript, faultsLeft, pc, cap, ready, delivered,
          cap_queue, stop_event, keep_event, connected, is_continue_capture,
          start_index, parse_frame_fn, out, last_poll, end_sent, cleaned,
          audit, peak_handles, late_frames, camera_setup, setup_result>>

workerVars == <<pc, cap, ready, delivered, devScript, faultsLeft,
                peak_handles, late_frames>>
setupVars == <<camera_setup, setup_result>>
coordVars == <<connected, is_continue_capture, start_index, parse_frame_fn,
               out, last_poll, end_sent, cleaned>>

\* ------------------------------------------------------------- the device
\* Strictly increasing frame.index sequences of length n that start at s.
RECURSIVE ScriptsFrom(_, _)
ScriptsFrom(s, n) ==
    IF n = 0 THEN {<<>>}
    ELSE IF n = 1 THEN {<<s>>}
    ELSE { <<s>> \o t : t \in UNION { ScriptsFrom(s + g, n - 1) : g \in 1..MaxGap } }

\* First frame.index a device stream can deliver, per camera.
StartSeqs(c) == IF c = "A" THEN {3} ELSE {7}

Scripts(c) == UNION { ScriptsFrom(s, MaxFrames) : s \in StartSeqs(c) }

\* The streams that lose no frame.
Gapless(c) == { s \in Scripts(c) : \A i \in 1..(Len(s) - 1) : s[i + 1] = s[i] + 1 }

\* A freshly started stream counts its frames from the beginning again.
Restarted(s) == [i \in DOMAIN s |-> i - 1]

\* uvc.Capture(...) on a device whose stream was already running: the driver
\* either carries on with the counter or starts it again.
ReopenScripts(s) == {s, Restarted(s)}

\* -------------------------------------------------------- the coordinator
Msg(c, i) == [camera_name |-> c, index |-> i]

\* Mutant of Output: the rebased index is stored as the sequence id too.
Output_SeqIdRebased(c, frame_index, index) ==
    [camera_name |-> c, frame_index |-> frame_index, frame_sequence_id |-> frame_index]

\* The record _parse_first_frame / _parse_frame put under output[camera_name].
Output(c, frame_index, index) ==
    [camera_name |-> c, frame_index |-> frame_index, frame_sequence_id |-> index]

\* Mutant of ParseFirstFrame: one baseline for the whole table, taken from the
\* first frame of whichever camera comes first.
ParseFirstFrame_SharedBaseline(si, msg) ==
    LET c == msg.camera_name
        si2 == IF si[c] = None THEN [k \in DOMAIN si |-> msg.index] ELSE si
        frame_index == IF si[c] = None THEN 0 ELSE msg.index - si[c]
    IN  [start_index |-> si2,
         parse_frame_fn |-> IF \A k \in DOMAIN si2 : si2[k] # None
                            THEN "frame" ELSE "first",
         ok |-> TRUE,
         output |-> [camera_name |-> c, frame_index |-> frame_index,
                     frame_sequence_id |-> msg.index]]

\* Mutant of ParseFirstFrame: the baseline is recorded but the first frame
\* keeps its device index.
ParseFirstFrame_NoZero(si, msg) ==
    LET c == msg.camera_name
        si2 == IF si[c] = None THEN [si EXCEPT ![c] = msg.index] ELSE si
        frame_index == IF si[c] = None THEN msg.index ELSE msg.index - si[c]
    IN  [start_index |-> si2,
         parse_frame_fn |-> IF \A k \in DOMAIN si2 : si2[k] # None
                            THEN "frame" ELSE "first",
         ok |-> TRUE,
         output |-> [camera_name |-> c, frame_index |-> frame_index,
                     frame_sequence_id |-> msg.index]]

\* Mutant of ParseFirstFrame: every frame parsed by it becomes the baseline
\* of its camera.
ParseFirstFrame_Overwrite(si, msg) ==
    LET c == msg.camera_name
        si2 == [si EXCEPT ![c] = msg.index]
    IN  [start_index |-> si2,
         parse_frame_fn |-> IF \A k \in DOMAIN si2 : si2[k] # None
                            THEN "frame" ELSE "first",
         ok |-> TRUE,
         output |-> Output(c, 0, msg.index)]

\* Mutant of ParseFirstFrame: the parse function is switched as soon as some
\* camera has a baseline (any instead of all).
ParseFirstFrame_EagerSwitch(si, msg) ==
    LET c == msg.camera_name
        si2 == IF si[c] = None THEN [si EXCEPT ![c] = msg.index] ELSE si
        frame_index == IF si[c] = None THEN 0 ELSE msg.index - si[c]
    IN  [start_index |-> si2,
         parse_frame_fn |-> IF \E k \in DOMAIN si2 : si2[k] # None
                            THEN "frame" ELSE "first",
         ok |-> TRUE,
         output |-> Output(c, frame_index, msg.index)]

\* _parse_first_frame: result is the new _start_index, the new _parse_frame_fn
\* and the returned output.
ParseFirstFrame(si, msg) ==
    LET c == msg.camera_name
        si2 == IF si[c] = None THEN [si EXCEPT ![c] = msg.index] ELSE si
        frame_index == IF si[c] = None THEN 0 ELSE msg.index - si[c]
    IN  [start_index |-> si2,
         parse_frame_fn |-> IF \A k \in DOMAIN si2 : si2[k] # None
                            THEN "frame" ELSE "first",
         ok |-> TRUE,
         output |-> Output(c, frame_index, msg.index)]

\* _parse_frame: int - None raises TypeError when the baseline is unset.
ParseFrame(si, msg) ==
    LET c == msg.camera_name
    IN  [start_index |-> si,
         parse_frame_fn |-> "frame",
         ok |-> si[c] # None,
         output |-> Output(c, msg.index - si[c], msg.index)]

\* self._parse_frame_fn(msg)
ParseFrameFn(fn, si, msg) ==
    IF fn = "first" THEN ParseFirstFrame(si, msg) ELSE ParseFrame(si, msg)

\* _connect: start one process per camera and return True.
Connect ==
    /\ ~connected
    /\ pc' = [c \in Cams |-> "start"]
    /\ connected' = TRUE
    /\ UNCHANGED <<target, broken, audit, setupVars, peak_handles, late_frames,
                   devScript, faultsLeft, cap, ready, delivered,
                   cap_queue, stop_event, keep_event, is_continue_capture,
                   start_index, parse_frame_fn, out, last_poll, end_sent, cleaned>>

\* Mutant of KeepSamples: the begin signal waits for every device to be open.
KeepSamples_AfterAllOpen ==
    /\ connected
    /\ ~keep_event
    /\ \A c \in Cams : cap[c] = "open"
    /\ keep_event' = TRUE
    /\ UNCHANGED <<target, broken, audit, setupVars, workerVars, cap_queue, stop_event, coordVars>>

\* _keep_samples
KeepSamples ==
    /\ connected
    /\ ~keep_event
    /\ keep_event' = TRUE
    /\ UNCHANGED <<target, broken, audit, setupVars, workerVars, cap_queue, stop_event, coordVars>>

\* Mutant of StopNewData: stopping also empties the transport queue.
StopNewData_FlushQueue ==
    /\ connected
    /\ ~stop_event
    /\ stop_event' = TRUE
    /\ is_continue_capture' = FALSE
    /\ cap_queue' = <<>>
    /\ UNCHANGED <<target, broken, audit, setupVars, workerVars, keep_event, connected,
                   start_index, parse_frame_fn, out, last_poll, end_sent, cleaned>>

\* _stop_new_data, called by the base class when it stops capturing
\* (it clears _is_continue_capture on the same occasion).
StopNewData ==
    /\ connected
    /\ ~stop_event
    /\ stop_event' = TRUE
    /\ is_continue_capture' = FALSE
    /\ UNCHANGED <<target, broken, audit, setupVars, workerVars, cap_queue, keep_event, connected,
                   start_index, parse_frame_fn, out, last_poll, end_sent, cleaned>>

\* Mutant of ProcessData: queue.Empty is not caught.
ProcessData_EmptyRaises ==
    /\ connected
    /\ last_poll # "error"
    /\ IF cap_queue = <<>>
       THEN /\ last_poll' = "error"
            /\ UNCHANGED <<cap_queue, start_index, parse_frame_fn, out, end_sent>>
       ELSE LET msg == Head(cap_queue)
                r == ParseFrameFn(parse_frame_fn, start_index, msg)
            IN  /\ cap_queue' = Tail(cap_queue)
                /\ start_index' = r.start_index
                /\ parse_frame_fn' = r.parse_frame_fn
                /\ out' = [out EXCEPT ![msg.camera_name] = Append(@, r.output)]
                /\ last_poll' = "frame"
                /\ UNCHANGED end_sent
    /\ UNCHANGED <<target, broken, audit, setupVars, workerVars, stop_event, keep_event, connected,
                   is_continue_capture, cleaned>>

\* _process_data: bounded wait on the queue, then parse and publish.
ProcessData ==
    /\ connected
    /\ last_poll # "error"
    /\ IF cap_queue = <<>>
       THEN /\ last_poll' = "no_data"
            /\ end_sent' = (end_sent \/ ~is_continue_capture)
            /\ UNCHANGED <<cap_queue, start_index, parse_frame_fn, out>>
       ELSE LET msg == Head(cap_queue)
                r == ParseFrameFn(parse_frame_fn, start_index, msg)
            IN  /\ cap_queue' = Tail(cap_queue)
                /\ IF r.ok
                   THEN /\ start_index' = r.start_index
                        /\ parse_frame_fn' = r.parse_frame_fn
                        /\ out' = [out EXCEPT ![msg.camera_name] = Append(@, r.output)]
                        /\ last_poll' = "frame"
                   ELSE /\ last_poll' = "error"
                        /\ UNCHANGED <<start_index, parse_frame_fn, out>>
                /\ UNCHANGED end_sent
    /\ UNCHANGED <<target, broken, audit, setupVars, workerVars, stop_event, keep_event, connected,
                   is_continue_capture, cleaned>>

Terminated(c) == pc[c] \in {"done", "crashed"}

\* _cleanup: join every worker process.
Cleanup ==
    /\ connected
    /\ stop_event
    /\ ~cleaned
    /\ \A c \in Cams : Terminated(c)
    /\ cleaned' = TRUE
    /\ UNCHANGED <<target, broken, audit, setupVars, workerVars, cap_queue, stop_event, keep_event,
                   connected, is_continue_capture, start_index, parse_frame_fn,
                   out, last_poll, end_sent>>

\* ------------------------------------------------------------ the workers
\* Outcomes of enumerating and opening the device of c, then configuring it,
\* with `left` faults still to inject: "ok", "open_fail" (device_list or
\* uvc.Capture raises) and "setup_fail" (an exception after the handle was
\* obtained).  A broken device fails every open.
OpenOutcomes(c, left) ==
    IF broken[c] THEN {"open_fail"}
    ELSE {"ok"} \cup (IF left > 0 THEN {"open_fail", "setup_fail"} ELSE {})

\* Faults left after open outcome o.
OpenCharge(c, o, left) == IF o = "ok" \/ broken[c] THEN left ELSE left - 1

\* Device handles worker c holds open at once, at most, once an open with
\* outcome o has run: uvc.Capture(...) returns the new handle while the one
\* bound to the worker's cap variable, if any, is still open.  (Recorded in
\* audited runs only; the history variables take no part in any guard.)
PeakAfterOpen(c, o) ==
    LET held == IF cap[c] = "open" THEN 1 ELSE 0
        now == IF o = "open_fail" THEN held ELSE held + 1
    IN  IF audit /\ now > peak_handles[c] THEN now ELSE peak_handles[c]

\* Outcomes of cap.get_frame(timeout) and of reading the frame's attributes.
\* A stream that has nothing left to deliver can only time out.
ReadOutcomes(c) ==
    (IF devScript[c] # <<>> THEN {"frame"} ELSE {"timeout"})
    \cup (IF faultsLeft > 0
          THEN {"timeout", "init_error", "stream_error", "attr_error"} ELSE {})

\* Faults left after read outcome o (a timeout of an exhausted stream is free).
Charge(c, o) ==
    IF o = "frame" \/ (o = "timeout" /\ devScript[c] = <<>>)
    THEN faultsLeft ELSE faultsLeft - 1

\* Mutant of PutFrame: the record is placed at the head of the queue.
PutFrame_AtHead(c) ==
    /\ cap_queue' = <<Msg(c, Head(devScript[c]))>> \o cap_queue
    /\ delivered' = [delivered EXCEPT ![c] = Append(@, Head(devScript[c]))]
    /\ devScript' = [devScript EXCEPT ![c] = Tail(@)]
    /\ late_frames' = [late_frames EXCEPT ![c] = IF audit /\ stop_event THEN @ + 1 ELSE @]

\* queue.put((camera_name, out, toa_s)) after a successful read.
PutFrame(c) ==
    /\ cap_queue' = Append(cap_queue, Msg(c, Head(devScript[c])))
    /\ delivered' = [delivered EXCEPT ![c] = Append(@, Head(devScript[c]))]
    /\ devScript' = [devScript EXCEPT ![c] = Tail(@)]
    /\ late_frames' = [late_frames EXCEPT ![c] = IF audit /\ stop_event THEN @ + 1 ELSE @]

\* --- _run_capture (producer.py)
\* Lines 74-108: open and configure the device; any exception ends the process.
RcOpen(c) ==
    /\ target = "run_capture"
    /\ pc[c] = "start"
    /\ \E o \in OpenOutcomes(c, faultsLeft) :
         /\ pc' = [pc EXCEPT ![c] = IF o = "ok" THEN "loop" ELSE "crashed"]
         /\ cap' = [cap EXCEPT ![c] = CASE o = "ok" -> "open"
                                        [] o = "open_fail" -> "unset"
                                        [] o = "setup_fail" -> "closed"]
         /\ peak_handles' = [peak_handles EXCEPT ![c] = PeakAfterOpen(c, o)]
         /\ faultsLeft' = OpenCharge(c, o, faultsLeft)
    /\ UNCHANGED <<target, broken, audit, setupVars, devScript, ready, delivered, cap_queue,
                   late_frames, stop_event, keep_event, coordVars>>

\* Mutant of RcLoop: the loop does not look at keep_event.
RcLoop_NoKeepCheck(c) ==
    /\ target = "run_capture"
    /\ pc[c] = "loop"
    /\ pc' = [pc EXCEPT ![c] = IF stop_event THEN "closing" ELSE "read"]
    /\ UNCHANGED <<target, broken, audit, setupVars, peak_handles, late_frames,
                   devScript, faultsLeft, cap, ready, delivered,
                   cap_queue, stop_event, keep_event, coordVars>>

\* Lines 110-113: the loop test and the wait for keep_event.
RcLoop(c) ==
    /\ target = "run_capture"
    /\ pc[c] = "loop"
    /\ pc' = [pc EXCEPT ![c] = IF stop_event THEN "closing"
                               ELSE IF ~keep_event THEN "loop" ELSE "read"]
    /\ UNCHANGED <<target, broken, audit, setupVars, peak_handles, late_frames,
                   devScript, faultsLeft, cap, ready, delivered,
                   cap_queue, stop_event, keep_event, coordVars>>

\* _get_frame (lines 43-62): TimeoutError, InitError and StreamError are
\* swallowed; anything else ends the process.
RcGetFrame(c) ==
    /\ target = "run_capture"
    /\ pc[c] = "read"
    /\ \E o \in ReadOutcomes(c) :
         /\ faultsLeft' = Charge(c, o)
         /\ IF o = "frame"
            THEN PutFrame(c) /\ pc' = [pc EXCEPT ![c] = "loop"] /\ UNCHANGED cap
            ELSE /\ UNCHANGED <<cap_queue, delivered, devScript, late_frames>>
                 /\ IF o = "attr_error"
                    THEN /\ pc' = [pc EXCEPT ![c] = "crashed"]
                         /\ cap' = [cap EXCEPT ![c] = "closed"]
                    ELSE pc' = [pc EXCEPT ![c] = "loop"] /\ UNCHANGED cap
    /\ UNCHANGED <<target, broken, audit, setupVars, peak_handles, ready, stop_event,
                   keep_event, coordVars>>

\* Line 115: cap.close()
RcClose(c) ==
    /\ target = "run_capture"
    /\ pc[c] = "closing"
    /\ cap' = [cap EXCEPT ![c] = "closed"]
    /\ pc' = [pc EXCEPT ![c] = "done"]
    /\ UNCHANGED <<target, broken, audit, setupVars, peak_handles, late_frames,
                   devScript, faultsLeft, ready, delivered,
                   cap_queue, stop_event, keep_event, coordVars>>

\* --- PupilUvcHandler (handler.py)
\* _restart_cap_device with outcome o: the handle self.cap afterwards.  Every
\* exception is swallowed (then time.sleep(1)); self.cap is assigned as soon as
\* uvc.Capture returned.
RestartCap(c, o) == IF o = "open_fail" THEN cap[c] ELSE "open"

\* The stream of the handle held after _restart_cap_device.
RestartScripts(c, o) ==
    IF o # "open_fail" /\ cap[c] = "open"
    THEN ReopenScripts(devScript[c]) ELSE {devScript[c]}

\* __call__ lines 49-67: first _restart_cap_device, then ready_event.set().
HStart(c) ==
    /\ target = "handler"
    /\ pc[c] = "start"
    /\ \E o \in OpenOutcomes(c, faultsLeft) :
         /\ cap' = [cap EXCEPT ![c] = RestartCap(c, o)]
         /\ peak_handles' = [peak_handles EXCEPT ![c] = PeakAfterOpen(c, o)]
         /\ faultsLeft' = OpenCharge(c, o, faultsLeft)
    /\ ready' = [ready EXCEPT ![c] = TRUE]
    /\ pc' = [pc EXCEPT ![c] = "wait_keep"]
    /\ UNCHANGED <<target, broken, audit, setupVars, late_frames, devScript, delivered, cap_queue,
                   stop_event, keep_event, coordVars>>

\* Line 68: keep_event.wait()
HWaitKeep(c) ==
    /\ target = "handler"
    /\ pc[c] = "wait_keep"
    /\ keep_event
    /\ pc' = [pc EXCEPT ![c] = "loop"]
    /\ UNCHANGED <<target, broken, audit, setupVars, peak_handles, late_frames,
                   devScript, faultsLeft, cap, ready, delivered,
                   cap_queue, stop_event, keep_event, coordVars>>

\* Mutant of HLoop: the loop runs while keep_event is set and does not look
\* at stop_event.
HLoop_WhileKeep(c) ==
    /\ target = "handler"
    /\ pc[c] = "loop"
    /\ pc' = [pc EXCEPT ![c] = IF ~keep_event THEN "closing" ELSE "read"]
    /\ UNCHANGED <<target, broken, audit, setupVars, peak_handles, late_frames,
                   devScript, faultsLeft, cap, ready, delivered,
                   cap_queue, stop_event, keep_event, coordVars>>

\* Line 70: while not stop_event.is_set()
HLoop(c) ==
    /\ target = "handler"
    /\ pc[c] = "loop"
    /\ pc' = [pc EXCEPT ![c] = IF stop_event THEN "closing" ELSE "read"]
    /\ UNCHANGED <<target, broken, audit, setupVars, peak_handles, late_frames,
                   devScript, faultsLeft, cap, ready, delivered,
                   cap_queue, stop_event, keep_event, coordVars>>

\* _get_frame (lines 104-120).  With self.cap never assigned the read raises
\* AttributeError; TimeoutError, NameError and AttributeError run
\* _restart_cap_device; InitError and StreamError are only logged.
HGetFrame(c) ==
    /\ target = "handler"
    /\ pc[c] = "read"
    /\ pc' = [pc EXCEPT ![c] = "loop"]
    /\ \E o \in (IF cap[c] = "open" THEN ReadOutcomes(c) ELSE {"no_handle"}) :
         LET left == IF o = "no_handle" THEN faultsLeft ELSE Charge(c, o)
         IN  IF o = "frame"
             THEN PutFrame(c) /\ UNCHANGED <<cap, faultsLeft, peak_handles>>
             ELSE IF o \in {"init_error", "stream_error"}
             THEN /\ faultsLeft' = left
                  /\ UNCHANGED <<cap, cap_queue, delivered, devScript,
                                 peak_handles, late_frames>>
             ELSE \E r \in OpenOutcomes(c, left) :
                    /\ cap' = [cap EXCEPT ![c] = RestartCap(c, r)]
                    /\ peak_handles' = [peak_handles EXCEPT ![c] = PeakAfterOpen(c, r)]
                    /\ devScript' \in { [devScript EXCEPT ![c] = s] :
                                          s \in RestartScripts(c, r) }
                    /\ faultsLeft' = OpenCharge(c, r, left)
                    /\ UNCHANGED <<cap_queue, delivered, late_frames>>
    /\ UNCHANGED <<target, broken, audit, setupVars, ready, stop_event, keep_event, coordVars>>

\* Line 72: self.cap.close(); AttributeError when self.cap was never assigned.
HClose(c) ==
    /\ target = "handler"
    /\ pc[c] = "closing"
    /\ IF cap[c] = "open"
       THEN cap' = [cap EXCEPT ![c] = "closed"] /\ pc' = [pc EXCEPT ![c] = "done"]
       ELSE pc' = [pc EXCEPT ![c] = "crashed"] /\ UNCHANGED cap
    /\ UNCHANGED <<target, broken, audit, setupVars, peak_handles, late_frames,
                   devScript, faultsLeft, ready, delivered,
                   cap_queue, stop_event, keep_event, coordVars>>

Worker(c) ==
    \/ RcOpen(c) \/ RcLoop(c) \/ RcGetFrame(c) \/ RcClose(c)
    \/ HStart(c) \/ HWaitKeep(c) \/ HLoop(c) \/ HGetFrame(c) \/ HClose(c)

\* ------------------------------------------------------- the device setup
\* The part of the open sequence that follows uvc.Capture(...): the search of
\* cap.available_modes for the configured (height, width, frame_rate), then
\* the control overrides of camera_spec["uvc_controls"], in dictionary order.
\* A listed mode is "want" when it equals the configured triple and "other"
\* when it does not; an override is "valid" (the device has a control of that
\* name and accepts the value), "missing" (no control of that name) or
\* "reject" (the assignment raises).
ModeKinds == {"want", "other"}
ControlKinds == {"valid", "missing", "reject"}

SeqsUpTo(S, n) == UNION { [1..k -> S] : k \in 0..n }

CameraSetups ==
    [available_modes : SeqsUpTo(ModeKinds, MaxModes),
     uvc_controls : SeqsUpTo(ControlKinds, MaxControls)]

\* No setup under study / no setup has run.
SetupIdle == [available_modes |-> <<>>, uvc_controls |-> <<>>]
SetupNotRun == [done |-> FALSE, outcome |-> "none", frame_mode |-> 0,
                applied |-> {}, logged |-> {}]

\* for mode in cap.available_modes: if <match>: cap.frame_mode = mode; break
\*                                  controls_by_name = {...}
\* The statement that builds controls_by_name is in the loop body, after the
\* if: it runs once per listed mode that did not match and not at all when
\* the first listed mode matches or when no mode is listed.  frame_mode 0 is
\* the device's default mode.
RECURSIVE SelectMode(_, _, _)
SelectMode(available_modes, i, st) ==
    IF i > Len(available_modes) THEN st
    ELSE IF available_modes[i] = "want" THEN [st EXCEPT !.frame_mode = i]
    ELSE SelectMode(available_modes, i + 1, [st EXCEPT !.controls_by_name = TRUE])

ModeState(available_modes) ==
    SelectMode(available_modes, 1, [frame_mode |-> 0, controls_by_name |-> FALSE])

\* _run_capture lines 91-99: the inner try catches the failed assignment
\* (ctrl is None for a missing name), prints it and goes on.
RECURSIVE RcApplyControls(_, _, _)
RcApplyControls(uvc_controls, i, st) ==
    IF i > Len(uvc_controls) THEN st
    ELSE RcApplyControls(uvc_controls, i + 1,
             IF uvc_controls[i] = "valid"
             THEN [st EXCEPT !.applied = @ \cup {i}]
             ELSE [st EXCEPT !.logged = @ \cup {i}])

\* _run_capture lines 80-99.  With an override to apply and controls_by_name
\* never bound, line 92 raises NameError outside the inner try: the process
\* ends ("crashed").
RunCaptureSetup(available_modes, uvc_controls) ==
    LET m == ModeState(available_modes)
        st == [done |-> TRUE, outcome |-> "completed", frame_mode |-> m.frame_mode,
               applied |-> {}, logged |-> {}]
    IN  IF uvc_controls = <<>> THEN st
        ELSE IF ~m.controls_by_name THEN [st EXCEPT !.outcome = "crashed"]
        ELSE RcApplyControls(uvc_controls, 1, st)

\* _restart_cap_device lines 94-99: the handler of the inner try calls
\* print(..., file=True), which raises AttributeError (True has no write)
\* before anything is written; the exception leaves the loop and is swallowed
\* by the outer except ("aborted").
RECURSIVE HApplyControls(_, _, _)
HApplyControls(uvc_controls, i, st) ==
    IF i > Len(uvc_controls) THEN st
    ELSE IF uvc_controls[i] = "valid"
    THEN HApplyControls(uvc_controls, i + 1, [st EXCEPT !.applied = @ \cup {i}])
    ELSE [st EXCEPT !.outcome = "aborted"]

\* _restart_cap_device lines 82-101.  The NameError of line 95 is swallowed
\* by the outer except as well.
HandlerSetup(available_modes, uvc_controls) ==
    LET m == ModeState(available_modes)
        st == [done |-> TRUE, outcome |-> "completed", frame_mode |-> m.frame_mode,
               applied |-> {}, logged |-> {}]
    IN  IF uvc_controls = <<>> THEN st
        ELSE IF ~m.controls_by_name THEN [st EXCEPT !.outcome = "aborted"]
        ELSE HApplyControls(uvc_controls, 1, st)

\* A _run_capture process configures the device it has opened.
RcSetup ==
    /\ target = "run_capture"
    /\ ~setup_result.done
    /\ setup_result' = RunCaptureSetup(camera_setup.available_modes,
                                       camera_setup.uvc_controls)
    /\ UNCHANGED <<target, broken, audit, camera_setup, workerVars, cap_queue,
                   stop_event, keep_event, coordVars>>

\* A PupilUvcHandler configures the device it has opened.
HSetup ==
    /\ target = "handler"
    /\ ~setup_result.done
    /\ setup_result' = HandlerSetup(camera_setup.available_modes,
                                    camera_setup.uvc_controls)
    /\ UNCHANGED <<target, broken, audit, camera_setup, workerVars, cap_queue,
                   stop_event, keep_event, coordVars>>

\* ------------------------------------------------------- the specification
\* The state after __init__, before _connect; the environment has chosen what
\* the devices are going to deliver.
InitWith(brokenSets, scripts) ==
    /\ target \in Targets
    /\ broken \in brokenSets
    /\ devScript \in scripts
    /\ faultsLeft = MaxFaults
    /\ pc = [c \in Cams |-> "idle"]
    /\ cap = [c \in Cams |-> "unset"]
    /\ ready = [c \in Cams |-> FALSE]
    /\ delivered = [c \in Cams |-> <<>>]
    /\ cap_queue = <<>>
    /\ stop_event = FALSE
    /\ keep_event = FALSE
    /\ connected = FALSE
    /\ is_continue_capture = TRUE
    /\ start_index = [c \in Cams |-> None]
    /\ parse_frame_fn = "first"
    /\ out = [c \in Cams |-> <<>>]
    /\ last_poll = "none"
    /\ end_sent = FALSE
    /\ cleaned = FALSE
    /\ peak_handles = [c \in Cams |-> 0]
    /\ late_frames = [c \in Cams |-> 0]

\* Devices that open (unless a fault is injected); one of them may lose frames.
Init ==
    /\ audit = FALSE
    /\ camera_setup = SetupIdle
    /\ setup_result = SetupNotRun
    /\ InitWith({[c \in Cams |-> FALSE]},
                { f \in [Cams -> UNION { Scripts(c) : c \in Cams }] :
                    /\ \A c \in Cams : f[c] \in Scripts(c)
                    /\ \E c \in Cams : f[c] \in Gapless(c) })

\* Devices of which any may fail every open, with streams that lose no frame.
InitLive ==
    /\ audit = FALSE
    /\ camera_setup = SetupIdle
    /\ setup_result = SetupNotRun
    /\ InitWith([Cams -> BOOLEAN],
                { f \in [Cams -> UNION { Gapless(c) : c \in Cams }] :
                    \A c \in Cams : f[c] \in Gapless(c) })

Next ==
    \/ Connect
    \/ KeepSamples
    \/ ProcessData
    \/ StopNewData
    \/ Cleanup
    \/ \E c \in Cams : RcOpen(c)
    \/ \E c \in Cams : RcLoop(c)
    \/ \E c \in Cams : RcGetFrame(c)
    \/ \E c \in Cams : RcClose(c)
    \/ \E c \in Cams : HStart(c)
    \/ \E c \in Cams : HWaitKeep(c)
    \/ \E c \in Cams : HLoop(c)
    \/ \E c \in Cams : HGetFrame(c)
    \/ \E c \in Cams : HClose(c)

Spec == Init /\ [][Next]_vars

\* The two-camera scenario: A delivers 100,101,102,105 and B delivers
\* 9000,9001, on healthy devices, under every schedule of the two workers and
\* the coordinator.
InitScenario ==
    /\ target \in Targets
    /\ broken = [c \in Cams |-> FALSE]
    /\ devScript = [c \in Cams |-> IF c = "A" THEN <<100, 101, 102, 105>>
                                   ELSE <<9000, 9001>>]
    /\ faultsLeft = 0
    /\ pc = [c \in Cams |-> "idle"]
    /\ cap = [c \in Cams |-> "unset"]
    /\ ready = [c \in Cams |-> FALSE]
    /\ delivered = [c \in Cams |-> <<>>]
    /\ cap_queue = <<>>
    /\ stop_event = FALSE
    /\ keep_event = FALSE
    /\ connected = FALSE
    /\ is_continue_capture = TRUE
    /\ start_index = [c \in Cams |-> None]
    /\ parse_frame_fn = "first"
    /\ out = [c \in Cams |-> <<>>]
    /\ last_poll = "none"
    /\ end_sent = FALSE
    /\ cleaned = FALSE
    /\ peak_handles = [c \in Cams |-> 0]
    /\ late_frames = [c \in Cams |-> 0]
    /\ audit = FALSE
    /\ camera_setup = SetupIdle
    /\ setup_result = SetupNotRun

SpecScenario == InitScenario /\ [][Next]_vars

\* Audited runs: the same program on devices that open and lose no frame,
\* with the handle and late-frame histories recorded.
InitAudit ==
    /\ audit = TRUE
    /\ camera_setup = SetupIdle
    /\ setup_result = SetupNotRun
    /\ InitWith({[c \in Cams |-> FALSE]},
                { f \in [Cams -> UNION { Gapless(c) : c \in Cams }] :
                    \A c \in Cams : f[c] \in Gapless(c) })

SpecAudit == InitAudit /\ [][Next]_vars

\* Device setup as a function of what the device lists and what the camera
\* specification asks for: every combination within the bounds, configured
\* once by the worker body in use.
InitSetup ==
    /\ audit = FALSE
    /\ camera_setup \in CameraSetups
    /\ setup_result = SetupNotRun
    /\ InitWith({[c \in Cams |-> FALSE]}, {[c \in Cams |-> <<>>]})

NextSetup == RcSetup \/ HSetup

SpecSetup == InitSetup /\ [][NextSetup]_vars

\* Every worker is a process of its own and keeps running; the caller keeps
\* polling and, once it has stopped the node, calls _cleanup.  Nothing obliges
\* the caller to raise the begin or the stop signal.
Fairness ==
    /\ \A c \in Cams : WF_vars(Worker(c))
    /\ WF_vars(ProcessData)
    /\ WF_vars(Cleanup)

FairSpec == InitLive /\ [][Next]_vars /\ Fairness

TypeOK ==
    /\ target \in Targets
    /\ \A c \in Cams : pc[c] \in {"idle", "start", "wait_keep", "loop", "read",
                                  "closing", "done", "crashed"}
    /\ \A c \in Cams : cap[c] \in {"unset", "open", "closed"}
    /\ faultsLeft \in 0..MaxFaults
    /\ parse_frame_fn \in {"first", "frame"}
    /\ last_poll \in {"none", "no_data", "frame", "error"}
    /\ audit \in BOOLEAN
    /\ \A c \in Cams : peak_handles[c] \in 0..2 /\ late_frames[c] \in 0..MaxFrames
    /\ camera_setup \in CameraSetups
    /\ setup_result.outcome \in {"none", "completed", "aborted", "crashed"}
    /\ setup_result.applied \subseteq DOMAIN camera_setup.uvc_controls

\* ---------------------------------------------------------------- claims
Published(c) == 1..Len(out[c])

\* C1: for every camera, the first normalized frame the coordinator produces
\* for it has frame_index 0, whatever its device sequence and however the
\* other cameras' frames interleave with it in the queue.
C1_FirstFrameIndexZero ==
    \A c \in Cams : Len(out[c]) > 0 => out[c][1].frame_index = 0

\* Both cameras have published, from nonzero device sequences, and both of
\* B's frames were published before A's second one.
C1_Witness ==
    /\ \A c \in Cams : Len(out[c]) > 0 /\ out[c][1].frame_sequence_id > 0
    /\ Len(out["B"]) = 2
    /\ Len(out["A"]) = 1

\* C2: for every camera, frame_index never decreases from one published
\* frame to the next, reconnecting workers included.
C2_NonDecreasing ==
    \A c \in Cams : \A i \in Published(c) :
        i > 1 => out[c][i - 1].frame_index <= out[c][i].frame_index

\* C3: every published frame of camera c has frame_index equal to the device
\* sequence the device delivered minus the baseline of c, and
\* frame_sequence_id equal to that device sequence; so the differences of
\* successive frame_index values are the differences of the device sequences.
C3_GapsPreserved ==
    \A c \in Cams :
        /\ Len(out[c]) <= Len(delivered[c])
        /\ \A i \in Published(c) :
             /\ out[c][i].frame_sequence_id = delivered[c][i]
             /\ out[c][i].frame_index = delivered[c][i] - start_index[c]
             /\ i > 1 => out[c][i].frame_index - out[c][i - 1].frame_index
                         = delivered[c][i] - delivered[c][i - 1]

\* A camera published two frames across a gap in the device sequence, the
\* second one through _parse_frame.
C3_Witness ==
    \E c \in Cams :
        /\ Len(out[c]) = 2
        /\ out[c][2].frame_sequence_id - out[c][1].frame_sequence_id = 2
        /\ out[c][2].frame_index = 2
        /\ parse_frame_fn = "frame"

FrameIndices(c) == [i \in Published(c) |-> out[c][i].frame_index]

IsPrefix(s, t) == Len(s) <= Len(t) /\ \A i \in 1..Len(s) : s[i] = t[i]

\* C4: rebasement is per camera and independent of the interleaving in the
\* queue: with A delivering 100,101,102,105 and B delivering 9000,9001 the
\* coordinator publishes frame_index 0,1,2,5 for A and 0,1 for B under every
\* schedule, and each camera's indices are a function of its own device
\* sequences alone.
C4_PerCameraRebasement ==
    /\ IsPrefix(FrameIndices("A"), <<0, 1, 2, 5>>)
    /\ IsPrefix(FrameIndices("B"), <<0, 1>>)
    /\ \A c \in Cams : \A i \in Published(c) :
         out[c][i].frame_index = delivered[c][i] - delivered[c][1]

\* Everything both cameras delivered has been published.
C4_Witness ==
    /\ FrameIndices("A") = <<0, 1, 2, 5>>
    /\ FrameIndices("B") = <<0, 1>>
    /\ start_index = [c \in Cams |-> IF c = "A" THEN 100 ELSE 9000]

\* C5: _connect returns True only after every worker raised its ready signal,
\* and the begin signal is not raised while a worker has not raised ready.
C5_StartWaitsForReady ==
    (connected \/ keep_event) => \A c \in Cams : ready[c]

\* C6: while the begin signal is not raised no worker is reading a frame or
\* has read one, and the transport queue is empty.
C6_NoCaptureBeforeBegin ==
    ~keep_event =>
        /\ cap_queue = <<>>
        /\ \A c \in Cams : pc[c] # "read" /\ delivered[c] = <<>>

\* Both workers hold an opened device and wait for the begin signal while the
\* coordinator has already polled.
C6_Witness ==
    /\ ~keep_event
    /\ \A c \in Cams : cap[c] = "open" /\ pc[c] \in {"loop", "wait_keep"}
    /\ last_poll = "no_data"

\* C7: whenever the stop signal is raised, before or after the begin signal,
\* every worker eventually terminates and _cleanup eventually returns.
C7_StopTerminates == stop_event ~> ((\A c \in Cams : Terminated(c)) /\ cleaned)

\* The same for runs of _run_capture workers only.
C7_StopTerminatesRunCapture ==
    (stop_event /\ target = "run_capture")
        ~> ((\A c \in Cams : Terminated(c)) /\ cleaned)

\* The same for stops that come after the begin signal.
C7_StopAfterBeginTerminates ==
    (stop_event /\ keep_event) ~> ((\A c \in Cams : Terminated(c)) /\ cleaned)

\* C8: a camera whose device fails every open never keeps the coordinator
\* from raising the begin signal, never shows as an error of the coordinator,
\* and never keeps another camera, once released, from getting a frame
\* published (unless the run is stopped or that camera's own worker died).
C8_FaultIsolation ==
    /\ [](connected /\ ~keep_event => ENABLED KeepSamples)
    /\ [](last_poll # "error")
    /\ \A c \in Cams : \A d \in Cams \ {c} :
         (broken[c] /\ ~broken[d] /\ keep_event)
             ~> (Len(out[d]) > 0 \/ stop_event \/ pc[d] = "crashed")

\* A's device is broken and its worker has tried to open it, B's frames are
\* published and the run has not been stopped.
C8_Witness ==
    /\ broken["A"] /\ ~broken["B"]
    /\ pc["A"] \in {"crashed", "loop", "read"}
    /\ cap["A"] = "unset"
    /\ Len(out["B"]) = MaxFrames
    /\ ~stop_event

\* C9: a poll that finds the queue empty returns no data, raises no error,
\* publishes nothing and leaves the baseline table and the selected parse
\* function as they were.
C9_EmptyPollNeutral ==
    [][(cap_queue = <<>> /\ (last_poll' # last_poll \/ end_sent' # end_sent))
         => /\ last_poll' = "no_data"
            /\ out' = out
            /\ start_index' = start_index
            /\ parse_frame_fn' = parse_frame_fn
            /\ cap_queue' = <<>>]_vars

\* An empty poll came after a frame of A was published, with B's baseline
\* still unset.
C9_Witness ==
    /\ last_poll = "no_data"
    /\ Len(out["A"]) > 0
    /\ start_index["B"] = None
    /\ parse_frame_fn = "first"

\* C10: raising stop discards nothing: every frame a worker put on the queue,
\* before or after stop, is eventually published by a poll (the published
\* count of each camera catches up with its delivered count again and again;
\* both counts only grow).
C10_StopKeepsFrames ==
    /\ [][stop_event' # stop_event => cap_queue' = cap_queue]_vars
    /\ \A c \in Cams : []<>(Len(out[c]) >= Len(delivered[c]))

\* Stop is raised while frames are on the queue and a worker is still reading.
C10_Witness ==
    /\ stop_event
    /\ Len(cap_queue) >= 2
    /\ \E c \in Cams : pc[c] = "read"

\* frame_sequence_id of the records emitted for camera c, in emission order.
FrameSeqIds(c) == [i \in Published(c) |-> out[c][i].frame_sequence_id]

\* Indices of the records of camera c that are on the queue, in queue order.
QueuedOf(c) ==
    LET q == SelectSeq(cap_queue, LAMBDA m : m.camera_name = c)
    IN  [i \in DOMAIN q |-> q[i].index]

\* C11: per camera, what the coordinator has emitted followed by what is
\* still in transit is exactly what the device delivered to the worker, in
\* the same order: nothing is reordered, duplicated or dropped.
C11_PerCameraOrder ==
    \A c \in Cams :
        FrameSeqIds(c) \o QueuedOf(c) = delivered[c]

\* Records of both workers are interleaved on the queue while a frame of A
\* has already been emitted and another frame of A waits behind one of B.
C11_Witness ==
    /\ Len(out["A"]) = 1
    /\ Len(cap_queue) >= 2
    /\ cap_queue[1].camera_name = "B"
    /\ cap_queue[2].camera_name = "A"

\* The controls lookup table exists when the overrides are reached: some
\* mode is listed and the first listed mode is not the configured one.
ControlsTableBuilt ==
    /\ camera_setup.available_modes # <<>>
    /\ camera_setup.available_modes[1] # "want"

BadControls == { i \in DOMAIN camera_setup.uvc_controls :
                   camera_setup.uvc_controls[i] # "valid" }

\* C12: a control override that names no control of the device, or whose
\* assignment fails, is skipped: setup completes and every other configured
\* override, before it and after it, has been applied.  Stated for the
\* setups in which the lookup table exists, so that only the handling of the
\* bad override is at stake.
C12_BadControlSkipped ==
    (setup_result.done /\ ControlsTableBuilt /\ BadControls # {})
        => /\ setup_result.outcome = "completed"
           /\ setup_result.applied = DOMAIN camera_setup.uvc_controls \ BadControls

\* The same statement for _run_capture processes only.
C12_RunCaptureSkipsBadControl ==
    target = "run_capture" => C12_BadControlSkipped

\* A _run_capture setup met a bad override between two valid ones and
\* applied both.
C12_RunCaptureWitness ==
    /\ target = "run_capture"
    /\ camera_setup.uvc_controls = <<"valid", "missing", "valid">>
    /\ setup_result.done
    /\ setup_result.applied = {1, 3}

\* First listed mode equal to the configured triple, if any; else 0.
FirstMatch ==
    LET ms == camera_setup.available_modes
        hits == { i \in DOMAIN ms : ms[i] = "want" }
    IN  IF hits = {} THEN 0 ELSE CHOOSE i \in hits : \A j \in hits : i <= j

\* C18: mode selection never aborts setup: wherever the configured mode is
\* in the device's list, or if it is not there, setup completes with the
\* first matching mode selected (the default mode with no match) and the
\* configured overrides applied.  Stated for camera specifications whose
\* overrides are all valid, so that only the mode selection is at stake.
C18_ModeSelectionNeverAborts ==
    (setup_result.done /\ BadControls = {})
        => /\ setup_result.outcome = "completed"
           /\ setup_result.frame_mode = FirstMatch
           /\ setup_result.applied = DOMAIN camera_setup.uvc_controls

\* The same statement for the setups in which the first listed mode is not
\* the configured one.
C18_LaterOrNoMatchCompletes ==
    ControlsTableBuilt => C18_ModeSelectionNeverAborts

\* A later mode matched, and a setup with no matching mode kept the default.
C18_LaterMatchWitness ==
    /\ setup_result.done
    /\ camera_setup.available_modes = <<"other", "want">>
    /\ camera_setup.uvc_controls = <<"valid", "valid">>
    /\ setup_result.frame_mode = 2
    /\ setup_result.applied = {1, 2}

\* C13: a worker's ready signal is raised only after a successful open: in
\* every reachable state where ready[c] is raised, worker c has obtained a
\* capture handle (which it holds open until it closes it on the way out).
C13_ReadyOnlyAfterOpen ==
    \A c \in Cams :
        ready[c] => /\ cap[c] # "unset"
                    /\ (pc[c] \in {"wait_keep", "loop", "read", "closing"}
                          => cap[c] = "open")

\* The only outcome the next read of worker c can have is a timeout: the
\* worker holds an open handle, its stream has no frame left and no fault is
\* left to inject.
OnlyTimeout(c) ==
    /\ pc[c] = "read"
    /\ cap[c] = "open"
    /\ devScript[c] = <<>>
    /\ faultsLeft = 0

\* C14: a frame read that times out with no frame available is a no-op:
\* nothing is enqueued, the device handle is neither closed nor reopened, and
\* the worker is back at its loop test.
C14_TimeoutIsNoOp ==
    [][\A c \in Cams :
         (OnlyTimeout(c) /\ pc'[c] # pc[c])
             => /\ pc'[c] = "loop"
                /\ cap_queue' = cap_queue
                /\ delivered' = delivered
                /\ cap' = cap
                /\ peak_handles' = peak_handles]_vars

\* The same statement for _run_capture processes only.
C14_RunCaptureTimeoutIsNoOp ==
    [][target = "run_capture" =>
         \A c \in Cams :
           (OnlyTimeout(c) /\ pc'[c] # pc[c])
               => /\ pc'[c] = "loop"
                  /\ cap_queue' = cap_queue
                  /\ delivered' = delivered
                  /\ cap' = cap
                  /\ peak_handles' = peak_handles]_vars

\* A _run_capture worker read its whole stream and is about to time out.
C14_RunCaptureWitness ==
    /\ target = "run_capture"
    /\ \E c \in Cams : OnlyTimeout(c) /\ Len(delivered[c]) = MaxFrames

\* C15: a fault during a frame read that is neither a timeout nor a driver
\* init/stream fault never terminates the worker: whatever a read does, the
\* worker is back at its loop test afterwards, and a read without a usable
\* handle runs the open sequence again (which, on a device that opens, leaves
\* the worker with an open handle).
C15_ReadFaultReopens ==
    [][\A c \in Cams :
         (pc[c] = "read" /\ pc'[c] # pc[c])
             => /\ pc'[c] = "loop"
                /\ (cap[c] # "open" /\ faultsLeft = 0 /\ ~broken[c])
                      => cap'[c] = "open"]_vars

\* The same statement for PupilUvcHandler workers only.
C15_HandlerReadFaultReopens ==
    [][target = "handler" =>
         \A c \in Cams :
           (pc[c] = "read" /\ pc'[c] # pc[c])
               => /\ pc'[c] = "loop"
                  /\ (cap[c] # "open" /\ faultsLeft = 0 /\ ~broken[c])
                        => cap'[c] = "open"]_vars

\* A handler whose first open failed is about to read without a handle, on
\* a device that opens from now on.
C15_HandlerWitness ==
    /\ target = "handler"
    /\ faultsLeft = 0
    /\ \E c \in Cams : /\ pc[c] = "read"
                       /\ cap[c] = "unset"
                       /\ ~stop_event

\* C16: a failed device open never terminates the worker: the step that runs
\* the start-up open sequence, whatever its outcome, leaves the worker
\* running, to try again on a later iteration.
C16_FailedOpenKeepsWorker ==
    [][\A c \in Cams :
         (pc[c] = "start" /\ pc'[c] # pc[c]) => pc'[c] # "crashed"]_vars

\* For PupilUvcHandler workers: once capture has begun, a worker whose device
\* can be opened ends up enqueuing every frame of its stream, failed opens
\* notwithstanding, unless stop is raised first.
C16_HandlerResumes ==
    \A c \in Cams :
        (target = "handler" /\ keep_event /\ ~broken[c])
            ~> (stop_event \/ devScript[c] = <<>>)

\* A handler whose start-up open failed is in its loop without a handle.
C16_HandlerWitness ==
    /\ target = "handler"
    /\ keep_event
    /\ ~stop_event
    /\ \E c \in Cams : ~broken[c] /\ pc[c] = "read" /\ cap[c] = "unset"

\* C17: the baseline table is write-once per camera: a baseline that is set
\* is never changed again, and a baseline changes only in the poll that
\* processes a frame of that same camera, to that frame's device index.
C17_BaselineWriteOnce ==
    [][\A c \in Cams :
         /\ start_index[c] # None => start_index'[c] = start_index[c]
         /\ start_index'[c] # start_index[c]
              => /\ cap_queue # <<>>
                 /\ Head(cap_queue).camera_name = c
                 /\ start_index'[c] = Head(cap_queue).index]_vars

\* Two frames of A were processed before B's first one, and A's baseline is
\* still the index of its first frame although later frames of A and the
\* first frame of B came after it.
C17_Witness ==
    /\ Len(out["A"]) = 2
    /\ Len(out["B"]) = 1
    /\ start_index["A"] = out["A"][1].frame_sequence_id
    /\ out["A"][2].frame_sequence_id # start_index["A"]
    /\ start_index["B"] = out["B"][1].frame_sequence_id
    /\ parse_frame_fn = "frame"

\* C19: a worker holds at most one open device handle at any time (a reopen
\* closes the handle held before it opens a new one), and a worker that left
\* its loop on stop has released its handle.
C19_AtMostOneHandle ==
    \A c \in Cams :
        /\ peak_handles[c] <= 1
        /\ pc[c] = "done" => cap[c] = "closed"

\* The same statement for _run_capture processes only.
C19_RunCaptureAtMostOneHandle ==
    target = "run_capture" => C19_AtMostOneHandle

\* A _run_capture worker that had opened its device and enqueued a frame
\* left its loop on stop and closed the handle.
C19_RunCaptureWitness ==
    /\ target = "run_capture"
    /\ \E c \in Cams : /\ pc[c] = "done"
                       /\ cap[c] = "closed"
                       /\ peak_handles[c] = 1
                       /\ Len(delivered[c]) > 0

\* C20: stop is only looked at between loop iterations: after stop is raised
\* a worker enqueues at most one more record (the read that was in flight),
\* and none once its loop test has seen stop.
C20_AtMostOneLateFrame ==
    /\ [](\A c \in Cams : late_frames[c] <= 1)
    /\ [][\A c \in Cams :
            pc[c] \in {"closing", "done", "crashed"}
                => /\ delivered'[c] = delivered[c]
                   /\ late_frames'[c] = late_frames[c]]_vars

\* Stop was raised while both workers were reading: each enqueued the frame
\* in flight, with frames of its stream left undelivered, and then stopped.
C20_Witness ==
    \A c \in Cams : /\ late_frames[c] = 1
                    /\ devScript[c] # <<>>
                    /\ pc[c] = "done"

\* C21: the parse function is _parse_frame only when every camera has a
\* baseline; it goes from _parse_first_frame to _parse_frame in a poll that
\* leaves every baseline set and never goes back; no poll fails on an unset
\* baseline; and for the record at the head of the queue, if its camera has
\* a baseline, both parse functions return the same record and leave the
\* baseline table alone.
C21_SwitchOnceAllBaselined ==
    /\ [](/\ parse_frame_fn = "frame" => \A c \in Cams : start_index[c] # None
          /\ last_poll # "error"
          /\ (cap_queue # <<>> /\ start_index[Head(cap_queue).camera_name] # None)
                => /\ ParseFirstFrame(start_index, Head(cap_queue)).output
                        = ParseFrame(start_index, Head(cap_queue)).output
                   /\ ParseFirstFrame(start_index, Head(cap_queue)).start_index
                        = start_index
                   /\ ParseFrame(start_index, Head(cap_queue)).ok)
    /\ [][/\ parse_frame_fn = "frame" => parse_frame_fn' = "frame"
          /\ parse_frame_fn' # parse_frame_fn
               => \A c \in Cams : start_index'[c] # None]_vars

\* The switch has happened after two frames of A were parsed by
\* _parse_first_frame (the second with A's baseline already set, B's still
\* unset), B's first frame set the last baseline, and a further frame of B
\* waits to be parsed by _parse_frame.
C21_Witness ==
    /\ parse_frame_fn = "frame"
    /\ Len(out["A"]) = 2
    /\ Len(out["B"]) = 1
    /\ out["A"][2].frame_index > 0
    /\ cap_queue # <<>>
    /\ Head(cap_queue).camera_name = "B"

====
